---- MODULE Spec2Model ----
(***************************************************************************)
(* Model of buildTree (src/buildTree.mjs): a flat list of node records is  *)
(* indexed (phase 1), the last node of every sibling run is detected       *)
(* (phase 2), every run is rebuilt by a backward walk over                 *)
(* previousSiblingId and attached to its parent or to the root list        *)
(* (phase 3), and the root list is handed to fs.writeFile without waiting  *)
(* for it.                                                                 *)
(*                                                                         *)
(* Node ids are strings.  The JavaScript objects `references` and          *)
(* `metaData` are keyed by strings, so the lookups references[null] and    *)
(* references[undefined] read the keys "null" and "undefined"; the model   *)
(* represents null and undefined by exactly these strings.  The ids of     *)
(* NodeIds are ordinary, non-numeric strings: none of them is "null",      *)
(* "undefined", "" or the name of a property of Object.prototype, and      *)
(* Object.keys lists them in insertion order.                              *)
(***************************************************************************)
EXTENDS Integers, Sequences, FiniteSets, TLC

VARIABLES
  unsortedNodes,     \* the parsed input array (line 21)
  references,        \* nodeId -> node record with children (line 22)
  keys,              \* own keys of `references` in Object.keys order
  metaData,          \* nodeId -> [isLastNode, childrenAreSorted] (line 23)
  tree,              \* the root list (line 26)
  rootTreeIsSorted,  \* line 27
  pc,                \* position of the control flow inside buildTree
  i,                 \* index of the running forEach
  initialNodeRef,    \* line 76
  nodeRef,           \* line 77, cursor of the backward walk
  sortedChildren,    \* line 89, accumulator of the backward walk
  promise,           \* state of the promise buildTree returned
  writeFile,         \* state of the fs.writeFile operation of line 111
  unshifts,          \* history: how often each node was prepended (line 93)
  assigned           \* history: how often each target was assigned (100, 102)

vars == <<unsortedNodes, references, keys, metaData, tree, rootTreeIsSorted,
          pc, i, initialNodeRef, nodeRef, sortedChildren, promise, writeFile,
          unshifts, assigned>>

\* Largest number of records of an arbitrary (possibly malformed) input.
MaxNodes == 2

\* Largest number of records of a well-formed input.
MaxWF == 4

\* Largest number of records of an input of root-level nodes with arbitrary
\* previousSiblingId links.
MaxLinked == 4

\* History counters stop counting at MaxCount.
MaxCount == 2

Max(x, y) == IF x > y THEN x ELSE y

\* The walk of a cyclic chain prepends without end; the model stops
\* recording after MaxAcc elements, more than any terminating walk collects.
MaxAcc == Max(Max(MaxNodes, MaxWF), MaxLinked) + 1

IdPool == <<"a", "b", "c", "d", "e", "f", "g">>

Ids(n) == {IdPool[k] : k \in 1..n}

null == "null"

undefined == "undefined"

\* The records of an arbitrary input: every reference is null or one of the
\* MaxNodes ids, and dangles when the input holds no record with that id.
NodeInput ==
  [nodeId : Ids(MaxNodes), parentId : Ids(MaxNodes) \cup {null},
   previousSiblingId : Ids(MaxNodes) \cup {null}]

RECURSIVE SeqsUpTo(_, _)
SeqsUpTo(S, n) ==
  IF n = 0 THEN {<<>>}
  ELSE LET shorter == SeqsUpTo(S, n - 1)
       IN  shorter \cup {Append(s, x) : s \in {t \in shorter : Len(t) = n - 1}, x \in S}

\* The ids of the records of `nodes`, in order of first occurrence.
RECURSIVE FirstOccurrences(_)
FirstOccurrences(nodes) ==
  IF nodes = <<>> THEN <<>>
  ELSE LET front == FirstOccurrences(SubSeq(nodes, 1, Len(nodes) - 1))
           id == nodes[Len(nodes)].nodeId
       IN  IF \E k \in 1..Len(front) : front[k] = id THEN front ELSE Append(front, id)

\* Ids are opaque: an input is taken up to renaming, its ids named in order
\* of first occurrence.
CanonicalIds(nodes) ==
  LET f == FirstOccurrences(nodes) IN \A k \in 1..Len(f) : f[k] = IdPool[k]

\* Arbitrary inputs: duplicate ids, dangling references, cycles, several
\* chains in one group, chains across groups.
ArbitraryInputs == {nodes \in SeqsUpTo(NodeInput, MaxNodes) : CanonicalIds(nodes)}

\* The nodes reached from x by one or more links of `previous`.
RECURSIVE LinkedBefore(_, _, _)
LinkedBefore(previous, x, n) ==
  IF n = 0 \/ previous[x] = null THEN {}
  ELSE {previous[x]} \cup LinkedBefore(previous, previous[x], n - 1)

\* The first node of the chain of x.
RECURSIVE FirstOf(_, _)
FirstOf(previous, x) ==
  IF previous[x] = null THEN x ELSE FirstOf(previous, previous[x])

\* The links that make disjoint chains of the nodes Ids(n): no cycle, and no
\* node is the previous sibling of two nodes.
ChainLinks(n) ==
  {previous \in [Ids(n) -> Ids(n) \cup {null}] :
     /\ \A x, y \in Ids(n) :
          (previous[x] # null /\ previous[x] = previous[y]) => x = y
     /\ \A x \in Ids(n) : x \notin LinkedBefore(previous, x, n)}

\* The input with ids Ids(n) whose chains are those of `previous`, the chain
\* that starts with x being the sibling group of parentOf[x].
ForestInput(n, previous, parentOf) ==
  [k \in 1..n |->
     [nodeId |-> IdPool[k],
      parentId |-> parentOf[FirstOf(previous, IdPool[k])],
      previousSiblingId |-> previous[IdPool[k]]]]

\* Inputs of root-level nodes with unique ids whose previousSiblingId links
\* are arbitrary: chains, forks, and cycles of every length and position.
LinkedRootInputs ==
  UNION {{[k \in 1..n |->
             [nodeId |-> IdPool[k], parentId |-> null,
              previousSiblingId |-> previous[IdPool[k]]]] :
            previous \in [Ids(n) -> Ids(n) \cup {null}]}
         : n \in 1..MaxLinked}

Min(x, y) == IF x < y THEN x ELSE y

\* references[key] / metaData[key]: the key of the entry, or undefined.
Lookup(table, key) == IF key \in DOMAIN table THEN key ELSE undefined

\* Truthiness of a reference to a node or of an id.
Truthy(v) == v # undefined /\ v # null

\* The state in which buildTree starts phase 1 on the parsed input `nodes`
\* (lines 21-27).
Start(nodes) ==
  /\ unsortedNodes = nodes
  /\ references = <<>>
  /\ keys = <<>>
  /\ metaData = <<>>
  /\ tree = <<>>
  /\ rootTreeIsSorted = FALSE
  /\ pc = "phase1"
  /\ i = 1
  /\ initialNodeRef = undefined
  /\ nodeRef = undefined
  /\ sortedChildren = <<>>
  /\ promise = "pending"
  /\ writeFile = "none"
  /\ unshifts = <<>>
  /\ assigned = [root |-> 0, children |-> <<>>]

\* The inputs that need not be well-formed.
InitArbitrary == \E nodes \in ArbitraryInputs \cup LinkedRootInputs : Start(nodes)

\* Well-formed inputs: unique ids, every reference names a record, every
\* sibling group is one chain that ends at null.  Any key order of such an
\* input is, up to renaming, the key order a, b, c, ... of another one.
InitWellFormed ==
  \E n \in 1..MaxWF :
    \E previous \in ChainLinks(n) :
      LET firsts == {x \in Ids(n) : previous[x] = null}
      IN  \E parentOf \in [firsts -> Ids(n) \cup {null}] :
            /\ \A x, y \in firsts : parentOf[x] = parentOf[y] => x = y
            /\ Start(ForestInput(n, previous, parentOf))

Init == InitArbitrary \/ InitWellFormed

\* -------------------------------------------------------------------------
\* PHASE 1 (lines 37-40): index the records
\* -------------------------------------------------------------------------

\* The callback of the first forEach, on unsortedNodes[i].
Phase1Step ==
  /\ pc = "phase1"
  /\ i <= Len(unsortedNodes)
  /\ LET node == unsortedNodes[i]
         id == node.nodeId
         ids == DOMAIN references \cup {id}
     IN  /\ references' =
               [k \in ids |->
                  IF k = id
                  THEN [nodeId |-> id, parentId |-> node.parentId,
                        previousSiblingId |-> node.previousSiblingId,
                        children |-> <<>>]
                  ELSE references[k]]
         /\ metaData' =
               [k \in ids |->
                  IF k = id
                  THEN [isLastNode |-> TRUE, childrenAreSorted |-> FALSE]
                  ELSE metaData[k]]
         /\ keys' = IF id \in DOMAIN references THEN keys ELSE Append(keys, id)
         /\ unshifts' = [k \in ids |-> 0]
         /\ assigned' = [assigned EXCEPT !.children = [k \in ids |-> 0]]
  /\ i' = i + 1
  /\ UNCHANGED <<unsortedNodes, tree, rootTreeIsSorted, pc, initialNodeRef,
                 nodeRef, sortedChildren, promise, writeFile>>

Phase1End ==
  /\ pc = "phase1"
  /\ i > Len(unsortedNodes)
  /\ pc' = "phase2"
  /\ i' = 1
  /\ UNCHANGED <<unsortedNodes, references, keys, metaData, tree,
                 rootTreeIsSorted, initialNodeRef, nodeRef, sortedChildren,
                 promise, writeFile, unshifts, assigned>>

\* -------------------------------------------------------------------------
\* PHASE 2 (lines 59-63): find the last node of every run
\* -------------------------------------------------------------------------

\* Faulty variant of MarkPrevious: no node is ever marked as not last.
MarkNothing(refs, meta, node) == meta

\* Lines 60-62: the node that `node` names as previous sibling is not last.
MarkPrevious(refs, meta, node) ==
  LET previousSiblingRef == Lookup(refs, node.previousSiblingId)
      previousSiblingMeta == Lookup(meta, node.previousSiblingId)
  IN  IF Truthy(previousSiblingRef)
      THEN [meta EXCEPT ![previousSiblingMeta].isLastNode = FALSE]
      ELSE meta

\* The callback of the second forEach, on unsortedNodes[i].
Phase2Step ==
  /\ pc = "phase2"
  /\ i <= Len(unsortedNodes)
  /\ metaData' = MarkPrevious(references, metaData, unsortedNodes[i])
  /\ i' = i + 1
  /\ UNCHANGED <<unsortedNodes, references, keys, tree, rootTreeIsSorted, pc,
                 initialNodeRef, nodeRef, sortedChildren, promise, writeFile,
                 unshifts, assigned>>

Phase2End ==
  /\ pc = "phase2"
  /\ i > Len(unsortedNodes)
  /\ pc' = "phase3"
  /\ i' = 1
  /\ UNCHANGED <<unsortedNodes, references, keys, metaData, tree,
                 rootTreeIsSorted, initialNodeRef, nodeRef, sortedChildren,
                 promise, writeFile, unshifts, assigned>>

\* -------------------------------------------------------------------------
\* PHASE 3 (lines 74-108): rebuild the runs
\* -------------------------------------------------------------------------

\* Faulty variant of Skips: the guards of lines 86-87 are missing.
SkipsOnlyNonLast(refs, meta, rootSorted, nodeId) == ~meta[nodeId].isLastNode

\* Faulty variant of Skips: the test of line 81 is missing.
SkipsOnlySorted(refs, meta, rootSorted, nodeId) ==
  LET parentRef == Lookup(refs, refs[nodeId].parentId)
      parentMeta == Lookup(meta, refs[nodeId].parentId)
  IN  \/ Truthy(parentRef) /\ meta[parentMeta].childrenAreSorted
      \/ ~Truthy(parentRef) /\ rootSorted

\* Lines 81-87: the callback returns without walking from nodeId.
Skips(refs, meta, rootSorted, nodeId) ==
  LET parentRef == Lookup(refs, refs[nodeId].parentId)
      parentMeta == Lookup(meta, refs[nodeId].parentId)
  IN  \/ ~meta[nodeId].isLastNode
      \/ Truthy(parentRef) /\ meta[parentMeta].childrenAreSorted
      \/ ~Truthy(parentRef) /\ rootSorted

\* Lines 76-89 for keys[i]: return at once, or set up the walk.
Phase3Visit ==
  /\ pc = "phase3"
  /\ i <= Len(keys)
  /\ LET nodeId == keys[i]
     IN  IF Skips(references, metaData, rootTreeIsSorted, nodeId)
         THEN /\ i' = i + 1
              /\ UNCHANGED <<pc, initialNodeRef, nodeRef, sortedChildren>>
         ELSE /\ initialNodeRef' = nodeId
              /\ nodeRef' = nodeId
              /\ sortedChildren' = <<>>
              /\ pc' = "walk"
              /\ UNCHANGED i
  /\ UNCHANGED <<unsortedNodes, references, keys, metaData, tree,
                 rootTreeIsSorted, promise, writeFile, unshifts, assigned>>

\* Faulty variant of Unshift: push instead of unshift.
Push(acc, ref) ==
  IF Len(acc) < MaxAcc THEN acc \o <<ref>> ELSE acc

\* Line 93: sortedChildren.unshift(nodeRef).
Unshift(acc, ref) ==
  IF Len(acc) < MaxAcc THEN <<ref>> \o acc ELSE acc

\* Faulty variant of PreviousSibling: the walk stops after one node.
NoPreviousSibling(refs, ref) == undefined

\* Line 94: references[nodeRef.previousSiblingId].
PreviousSibling(refs, ref) == Lookup(refs, refs[ref].previousSiblingId)

\* Lines 92-95: one iteration of the while loop.
WalkStep ==
  /\ pc = "walk"
  /\ Truthy(nodeRef)
  /\ sortedChildren' = Unshift(sortedChildren, nodeRef)
  /\ nodeRef' = PreviousSibling(references, nodeRef)
  /\ unshifts' = [unshifts EXCEPT ![nodeRef] = Min(@ + 1, MaxCount)]
  /\ UNCHANGED <<unsortedNodes, references, keys, metaData, tree,
                 rootTreeIsSorted, pc, i, initialNodeRef, promise, writeFile,
                 assigned>>

\* Faulty variant of HasParentId: every run goes to the root list.
HasParentIdNever(refs, nodeId) == FALSE

\* Line 99: the run goes to a parent's children, not to the root list.
HasParentId(refs, nodeId) == Truthy(refs[nodeId].parentId)

\* Line 100 throws a TypeError: references[parentId] is undefined.
AttachThrows(refs, nodeId) ==
  HasParentId(refs, nodeId) /\ ~Truthy(Lookup(refs, refs[nodeId].parentId))

\* Faulty variant of Attached: every run is also assigned to the root list.
AttachedAlsoToRoot(refs, meta, rootList, rootSorted, nodeId, sorted) ==
  LET parentId == refs[nodeId].parentId
      parentRef == Lookup(refs, parentId)
      parentMeta == Lookup(meta, parentId)
  IN  [references |->
         IF Truthy(parentId)
         THEN [refs EXCEPT ![parentId].children = sorted]
         ELSE refs,
       tree |-> sorted,
       rootTreeIsSorted |-> IF Truthy(parentId) THEN rootSorted ELSE TRUE,
       metaData |->
         IF Truthy(parentRef)
         THEN [meta EXCEPT ![parentMeta].childrenAreSorted = TRUE]
         ELSE meta]

\* Lines 99-105 when line 100 does not throw: the run `sorted` that was
\* walked from nodeId is attached and the flags are set.
Attached(refs, meta, rootList, rootSorted, nodeId, sorted) ==
  LET parentId == refs[nodeId].parentId
      parentRef == Lookup(refs, parentId)
      parentMeta == Lookup(meta, parentId)
  IN  [references |->
         IF HasParentId(refs, nodeId)
         THEN [refs EXCEPT ![parentId].children = sorted]
         ELSE refs,
       tree |-> IF HasParentId(refs, nodeId) THEN rootList ELSE sorted,
       rootTreeIsSorted |-> IF HasParentId(refs, nodeId) THEN rootSorted ELSE TRUE,
       metaData |->
         IF Truthy(parentRef)
         THEN [meta EXCEPT ![parentMeta].childrenAreSorted = TRUE]
         ELSE meta]

\* Lines 99-105 after the loop has ended: the TypeError of line 100 ends
\* buildTree, or the run is attached and the forEach goes on.
Attach ==
  /\ pc = "walk"
  /\ ~Truthy(nodeRef)
  /\ IF AttachThrows(references, initialNodeRef)
     THEN /\ pc' = "thrown"
          /\ promise' = "rejected"
          /\ UNCHANGED <<references, metaData, tree, rootTreeIsSorted, i,
                         assigned>>
     ELSE /\ LET after == Attached(references, metaData, tree, rootTreeIsSorted,
                                   initialNodeRef, sortedChildren)
             IN  /\ references' = after.references
                 /\ metaData' = after.metaData
                 /\ tree' = after.tree
                 /\ rootTreeIsSorted' = after.rootTreeIsSorted
          /\ assigned' =
               IF HasParentId(references, initialNodeRef)
               THEN [assigned EXCEPT
                       !.children[references[initialNodeRef].parentId] =
                          Min(@ + 1, MaxCount)]
               ELSE [assigned EXCEPT !.root = Min(@ + 1, MaxCount)]
          /\ pc' = "phase3"
          /\ i' = i + 1
          /\ UNCHANGED promise
  /\ UNCHANGED <<unsortedNodes, keys, initialNodeRef, nodeRef, sortedChildren,
                 writeFile, unshifts>>

\* -------------------------------------------------------------------------
\* Output (line 111) and the return of buildTree
\* -------------------------------------------------------------------------

Range(s) == {s[k] : k \in 1..Len(s)}

\* The nodes that the children arrays of the nodes of S refer to.
ChildSet(refs, S) == UNION {Range(refs[k].children) : k \in S}

\* The nodes JSON.stringify serialises below the nodes of S (S included).
RECURSIVE Reach(_, _, _)
Reach(refs, S, n) ==
  IF n = 0 THEN S ELSE Reach(refs, S \cup ChildSet(refs, S), n - 1)

\* JSON.stringify(tree) throws "Converting circular structure to JSON":
\* some serialised node lies below itself.
Circular(refs, roots) ==
  LET n == Cardinality(DOMAIN refs)
  IN  \E k \in Reach(refs, Range(roots), n) :
        k \in Reach(refs, ChildSet(refs, {k}), n)

\* Line 111 and the implicit return: the forEach of phase 3 is over, the tree
\* is serialised, fs.writeFile is called and not awaited, buildTree returns.
Output ==
  /\ pc = "phase3"
  /\ i > Len(keys)
  /\ pc' = "returned"
  /\ IF Circular(references, tree)
     THEN promise' = "rejected" /\ UNCHANGED writeFile
     ELSE promise' = "fulfilled" /\ writeFile' = "pending"
  /\ UNCHANGED <<unsortedNodes, references, keys, metaData, tree,
                 rootTreeIsSorted, i, initialNodeRef, nodeRef, sortedChildren,
                 unshifts, assigned>>

\* The promise fs.writeFile returned is fulfilled: the file is written.
WriteFileSucceeds ==
  /\ writeFile = "pending"
  /\ writeFile' = "written"
  /\ UNCHANGED <<unsortedNodes, references, keys, metaData, tree,
                 rootTreeIsSorted, pc, i, initialNodeRef, nodeRef,
                 sortedChildren, promise, unshifts, assigned>>

\* The promise fs.writeFile returned is rejected (for instance the
\* destination is not writable); nothing handles the rejection.
WriteFileFails ==
  /\ writeFile = "pending"
  /\ writeFile' = "failed"
  /\ UNCHANGED <<unsortedNodes, references, keys, metaData, tree,
                 rootTreeIsSorted, pc, i, initialNodeRef, nodeRef,
                 sortedChildren, promise, unshifts, assigned>>

\* -------------------------------------------------------------------------
\* Phase 3 as a function of the order in which the keys are visited
\* -------------------------------------------------------------------------

\* Lines 92-95 run from `ref`: the accumulator when the loop ends.  A walk
\* that ends visits no node twice, so one that is still running after
\* `fuel` = number of nodes + 1 iterations never ends.
RECURSIVE WalkAll(_, _, _, _)
WalkAll(refs, ref, acc, fuel) ==
  IF ~Truthy(ref) THEN [ended |-> TRUE, sorted |-> acc]
  ELSE IF fuel = 0 THEN [ended |-> FALSE, sorted |-> acc]
  ELSE WalkAll(refs, PreviousSibling(refs, ref), Unshift(acc, ref), fuel - 1)

\* Lines 75-107: the whole callback of the third forEach on nodeId.  S holds
\* references, metaData, tree, rootTreeIsSorted and how phase 3 stands.
VisitKey(S, nodeId) ==
  IF S.status # "running" THEN S
  ELSE IF Skips(S.references, S.metaData, S.rootTreeIsSorted, nodeId) THEN S
  ELSE LET walk == WalkAll(S.references, nodeId, <<>>,
                           Cardinality(DOMAIN S.references) + 1)
           after == Attached(S.references, S.metaData, S.tree,
                             S.rootTreeIsSorted, nodeId, walk.sorted)
       IN  IF ~walk.ended THEN [S EXCEPT !.status = "walking"]
           ELSE IF AttachThrows(S.references, nodeId)
                THEN [S EXCEPT !.status = "thrown"]
                ELSE [references |-> after.references,
                      metaData |-> after.metaData,
                      tree |-> after.tree,
                      rootTreeIsSorted |-> after.rootTreeIsSorted,
                      status |-> "running"]

\* Lines 74-108 with the keys visited in the order `order`.
RECURSIVE RunPhase3(_, _)
RunPhase3(S, order) ==
  IF order = <<>> THEN S
  ELSE RunPhase3(VisitKey(S, Head(order)), Tail(order))

\* buildTree completes: phase 3 ends and JSON.stringify does not throw.
Completes(S) == S.status = "running" /\ ~Circular(S.references, S.tree)

\* The state phase 3 starts from, once phase 2 is over.
Phase3Start ==
  [references |-> references, metaData |-> metaData, tree |-> tree,
   rootTreeIsSorted |-> rootTreeIsSorted, status |-> "running"]

\* The orders in which the keys of the index can be visited.
KeyOrders ==
  LET n == Len(keys)
  IN  {[k \in 1..n |-> keys[o[k]]] :
         o \in {f \in [1..n -> 1..n] : \A j, k \in 1..n : f[j] = f[k] => j = k}}

Next ==
  \/ Phase1Step
  \/ Phase1End
  \/ Phase2Step
  \/ Phase2End
  \/ Phase3Visit
  \/ WalkStep
  \/ Attach
  \/ Output
  \/ WriteFileSucceeds
  \/ WriteFileFails

Spec == Init /\ [][Next]_vars

SpecArbitrary == InitArbitrary /\ [][Next]_vars

\* buildTree runs synchronously to its end and the write settles: a step
\* that can be taken is taken.
FairSpec == InitArbitrary /\ [][Next]_vars /\ WF_vars(Next)

\* -------------------------------------------------------------------------
\* The input, as the properties speak of it
\* -------------------------------------------------------------------------

InputIds == {unsortedNodes[k].nodeId : k \in 1..Len(unsortedNodes)}

UniqueIds ==
  \A j, k \in 1..Len(unsortedNodes) :
    unsortedNodes[j].nodeId = unsortedNodes[k].nodeId => j = k

\* Every non-null parentId and previousSiblingId names a record of the input.
RefsExist ==
  \A k \in 1..Len(unsortedNodes) :
    /\ unsortedNodes[k].parentId \in InputIds \cup {null}
    /\ unsortedNodes[k].previousSiblingId \in InputIds \cup {null}

\* The record with id x, for an input with unique ids.
Rec(x) == unsortedNodes[CHOOSE k \in 1..Len(unsortedNodes) : unsortedNodes[k].nodeId = x]

\* The sibling group of p: the nodes whose parentId is p (p may be null).
Group(p) == {x \in InputIds : Rec(x).parentId = p}

\* The chain of G that starts with the sequence s, followed as long as
\* exactly one further node of G names its last node as previous sibling.
RECURSIVE ChainFrom(_, _)
ChainFrom(G, s) ==
  LET next == {y \in G \ Range(s) : Rec(y).previousSiblingId = s[Len(s)]}
  IN  IF Cardinality(next) = 1
      THEN ChainFrom(G, Append(s, CHOOSE y \in next : TRUE))
      ELSE s

\* The nodes of G without a previous sibling.
Firsts(G) == {x \in G : Rec(x).previousSiblingId = null}

\* G is A1..An with A1.previousSiblingId = null and
\* A(i+1).previousSiblingId = Ai; ChainOf(G) is then <<A1, ..., An>>.
ChainOf(G) == ChainFrom(G, <<CHOOSE x \in Firsts(G) : TRUE>>)

IsChain(G) == Firsts(G) # {} /\ Range(ChainOf(G)) = G

\* The input satisfies the invariants of the data model.
WellFormed ==
  /\ UniqueIds
  /\ RefsExist
  /\ \A p \in InputIds \cup {null} : Group(p) # {} => IsChain(Group(p))

\* What phase 3 has assembled for the group of p.
Placed(p) == IF p = null THEN tree ELSE references[p].children

\* Phase 3 has visited every key and buildTree has gone on to the output.
Phase3Over == pc = "returned"

\* -------------------------------------------------------------------------
\* C1  Sibling order reconstruction
\* -------------------------------------------------------------------------

\* The group of p is one chain A1..An and no node outside it names a member.
IsolatedChain(p) ==
  /\ Group(p) # {}
  /\ IsChain(Group(p))
  /\ \A x \in InputIds \ Group(p) : Rec(x).previousSiblingId \notin Group(p)

\* C1: for an input with unique ids in which the nodes with parentId p (an
\* existing node, or null for the root level) are one chain A1..An that no
\* other node links into, a phase 3 that has run to its end leaves
\* p.children (the root list for null) equal to <<A1, ..., An>>.
C1_SiblingOrder ==
  (Phase3Over /\ UniqueIds) =>
    \A p \in InputIds \cup {null} :
      IsolatedChain(p) => Placed(p) = ChainOf(Group(p))

\* A parent with a chain of three children has been assembled, and the
\* chain is not in key order.
C1_Witness ==
  /\ Phase3Over
  /\ UniqueIds
  /\ \E p \in InputIds :
       /\ IsolatedChain(p)
       /\ Cardinality(Group(p)) = 3
       /\ references[p].children = ChainOf(Group(p))
       /\ references[p].children[1] = "d"

\* -------------------------------------------------------------------------
\* C2  Root vs. nested placement
\* -------------------------------------------------------------------------

\* Every node of the root list has parentId null and every node of some
\* p.children has parentId p.
PlacedUnderParent ==
  /\ \A k \in 1..Len(tree) : references[tree[k]].parentId = null
  /\ \A p \in DOMAIN references :
       \A k \in 1..Len(references[p].children) :
         references[references[p].children[k]].parentId = p

\* C2 as claimed: for an input with unique ids whose references all name
\* existing nodes, a node is only ever placed in the list of its own parent
\* (the root list for parentId null).
C2_PlacementAsClaimed == PlacedUnderParent \/ ~(UniqueIds /\ RefsExist)

\* Every previousSiblingId names a node of the same sibling group.
SiblingLinksInGroup ==
  \A k \in 1..Len(unsortedNodes) :
    LET node == unsortedNodes[k]
    IN  node.previousSiblingId # null =>
          \E j \in 1..Len(unsortedNodes) :
            /\ unsortedNodes[j].nodeId = node.previousSiblingId
            /\ unsortedNodes[j].parentId = node.parentId

\* C2 amended: the same, for inputs in which moreover every
\* previousSiblingId names a node with the same parentId.
C2_Placement ==
  PlacedUnderParent \/ ~(UniqueIds /\ RefsExist /\ SiblingLinksInGroup)

\* Both a root run of two nodes and a nested run of two nodes were attached.
C2_Witness ==
  /\ Phase3Over
  /\ UniqueIds /\ RefsExist /\ SiblingLinksInGroup
  /\ Len(tree) = 2
  /\ \E p \in DOMAIN references : Len(references[p].children) = 2

\* -------------------------------------------------------------------------
\* C3  Cycle safety
\* -------------------------------------------------------------------------

\* The nodes reached from the nodes of S by one or more previousSiblingId
\* links of the index.
RECURSIVE PrevReach(_, _)
PrevReach(S, n) ==
  LET step == {PreviousSibling(references, x) : x \in S} \cap DOMAIN references
  IN  IF n = 0 THEN {} ELSE step \cup PrevReach(step, n - 1)

Before(x) == PrevReach({x}, Cardinality(DOMAIN references))

OnCycle(x) == x \in Before(x)

\* C3 as claimed, where the backward walk comes upon a cycle of two or more
\* nodes (the claim's example): buildTree then ends in a reported fault (its
\* promise is rejected); the walk does not run forever.
C3_CycleSafety ==
  (/\ pc = "walk"
   /\ Truthy(nodeRef)
   /\ OnCycle(nodeRef)
   /\ PreviousSibling(references, nodeRef) # nodeRef) ~> (promise = "rejected")

\* -------------------------------------------------------------------------
\* C4  Dangling references
\* -------------------------------------------------------------------------

\* Some parentId or previousSiblingId names an id that no record has.
HasDanglingReference == ~RefsExist

\* C4 as claimed: on an input with a dangling parentId or
\* previousSiblingId buildTree raises no fault in phases 2 and 3.
C4_DanglingTolerated == HasDanglingReference => pc # "thrown"

\* -------------------------------------------------------------------------
\* C5  Iteration-order independence
\* -------------------------------------------------------------------------

\* Any two orders of phase 3 on which buildTree completes leave the same
\* root list and the same children everywhere.
OrderIndependent ==
  LET completed == {r \in {RunPhase3(Phase3Start, o) : o \in KeyOrders} :
                      Completes(r)}
  IN  \A r1, r2 \in completed :
        r1.tree = r2.tree /\ r1.references = r2.references

\* Phase 2 is over and phase 3 has not begun.
AtPhase3Start == pc = "phase3" /\ i = 1

\* C5 as claimed: for every input, all orders of phase 3 on which
\* buildTree completes give the same result.
C5_OrderIndependentAsClaimed == AtPhase3Start => OrderIndependent

\* No two nodes that phase 2 left with isLastNode = true have the same
\* parentId.
OneLastNodePerParent ==
  \A x, y \in DOMAIN references :
    (/\ metaData[x].isLastNode
     /\ metaData[y].isLastNode
     /\ references[x].parentId = references[y].parentId) => x = y

\* C5 amended: the same, for the inputs in which no two nodes that keep
\* isLastNode = true after phase 2 have the same parentId.
C5_OrderIndependent ==
  (AtPhase3Start /\ OneLastNodePerParent) => OrderIndependent

\* Two runs are to be assembled, buildTree completes in either order.
C5_Witness ==
  /\ AtPhase3Start
  /\ OneLastNodePerParent
  /\ Cardinality({x \in DOMAIN references : metaData[x].isLastNode}) = 2
  /\ \A o \in KeyOrders : Completes(RunPhase3(Phase3Start, o))
  /\ \E o \in KeyOrders : RunPhase3(Phase3Start, o).tree # <<>>

\* -------------------------------------------------------------------------
\* C6  Unique terminal node per group
\* -------------------------------------------------------------------------

Phase2Over == pc \notin {"phase1", "phase2"}

\* C6: for a well-formed input, once phase 2 has finished every non-empty
\* sibling group holds exactly one node with isLastNode = true.
C6_OneLastNodePerGroup ==
  (Phase2Over /\ UniqueIds) =>
    \/ \A p \in InputIds \cup {null} :
         Group(p) # {} =>
           Cardinality({x \in Group(p) : metaData[x].isLastNode}) = 1
    \/ ~WellFormed

\* Phase 2 has finished on a well-formed input with a group of three nodes
\* and a group of one node.
C6_Witness ==
  /\ Phase2Over
  /\ WellFormed
  /\ \E p, q \in InputIds \cup {null} :
       Cardinality(Group(p)) = 3 /\ Cardinality(Group(q)) = 1

\* -------------------------------------------------------------------------
\* C7  Assemble-once guard
\* -------------------------------------------------------------------------

C8_WriteFailureSurfaced == writeFile = "failed" => promise # "fulfilled"

\* -------------------------------------------------------------------------
\* C9  Each node placed exactly once
\* -------------------------------------------------------------------------

\* How often x occurs in the sequence s.
Count(s, x) == Cardinality({k \in 1..Len(s) : s[k] = x})

\* How often x occurs in the children of the nodes of the sequence ks.
RECURSIVE CountInChildren(_, _)
CountInChildren(ks, x) ==
  IF ks = <<>> THEN 0
  ELSE Count(references[Head(ks)].children, x) + CountInChildren(Tail(ks), x)

\* How often x occurs in the root list and all children together.
Occurrences(x) == Count(tree, x) + CountInChildren(keys, x)

\* C9: for a well-formed input no node is prepended by the backward walks
\* more than once, and when phase 3 is over every node has been prepended
\* exactly once and occurs exactly once over the root list and all children.
C9_PlacedExactlyOnce ==
  \/ /\ \A x \in DOMAIN unshifts : unshifts[x] <= 1
     /\ Phase3Over =>
          \A x \in InputIds : unshifts[x] = 1 /\ Occurrences(x) = 1
  \/ ~WellFormed

\* Phase 3 is over on a well-formed input of four nodes on three levels.
C9_Witness ==
  /\ Phase3Over
  /\ WellFormed
  /\ Len(unsortedNodes) = 4
  /\ Len(tree) = 1
  /\ \E p, q \in InputIds :
       /\ p # q
       /\ Len(references[p].children) = 2
       /\ Len(references[q].children) = 1

\* -------------------------------------------------------------------------
\* C10  Closed cycles are dropped
\* -------------------------------------------------------------------------

\* x lies on a cycle of previousSiblingId links that no node outside the
\* cycle links into.
OnClosedCycle(x) ==
  /\ OnCycle(x)
  /\ \A y \in DOMAIN references \ Before(x) :
       PreviousSibling(references, y) \notin Before(x)

\* The walk is about to prepend a node it has prepended already: the loop
\* of lines 92-95 is cycling and never ends.
WalkRevisits ==
  pc = "walk" /\ Truthy(nodeRef) /\ nodeRef \in Range(sortedChildren)

Phase1Over == pc # "phase1"

\* C10: once phase 2 is over no member of a closed cycle has
\* isLastNode = true; no walk starts from or passes through a member; no
\* member is ever placed in the root list or in any children; and a walk
\* only cycles on a cycle that is not closed, having started from a node
\* with isLastNode = true, so that with closed cycles alone no walk runs
\* forever.
C10_ClosedCyclesDropped ==
  Phase1Over =>
    /\ \A m \in DOMAIN references :
         OnClosedCycle(m) =>
           /\ Phase2Over => ~metaData[m].isLastNode
           /\ initialNodeRef # m /\ nodeRef # m
           /\ unshifts[m] = 0
           /\ m \notin Range(sortedChildren)
           /\ Occurrences(m) = 0
    /\ WalkRevisits =>
         /\ metaData[initialNodeRef].isLastNode
         /\ OnCycle(nodeRef) /\ ~OnClosedCycle(nodeRef)
         /\ nodeRef \in Before(initialNodeRef)

\* buildTree has completed without fault on an input with a closed cycle
\* of two nodes next to a node that was placed.
C10_Witness ==
  /\ Phase3Over
  /\ promise = "fulfilled"
  /\ tree # <<>>
  /\ \E m \in DOMAIN references :
       OnClosedCycle(m) /\ PreviousSibling(references, m) # m

====
